---- MODULE Spec2Model ----
(***************************************************************************)
(* A model of the TensorFlow modifier framework                            *)
(* (neuralmagicML/tensorflow/recal/modifier.py) and of the image folder    *)
(* dataset (neuralmagicML/tensorflow/datasets/classification/              *)
(* imagefolder.py).                                                        *)
(*                                                                         *)
(* Five specifications share the variables below; each one moves the       *)
(* variables of one component and leaves the others at their initial       *)
(* values:                                                                 *)
(*   SpecLife   the Modifier life cycle and the estimator training loop    *)
(*   SpecSteps  ScheduledModifier.start_end_steps                          *)
(*   SpecEpoch  epoch_to_steps                                             *)
(*   SpecData   ImageFolderDataset.__init__ and creator over a file tree   *)
(*   SpecProc   ImageFolderDataset.processor                               *)
(***************************************************************************)
EXTENDS Integers, Sequences, FiniteSets, TLC

VARIABLES
    initialized,      \* Modifier._initialized
    calls,            \* the calls made on the modifier so far, oldest first
    subclass_ops,     \* the ops the modifier's create_ops returns
    estimator,        \* the tf Estimator: its model_fn, its run, its hooks
    runs,             \* one record per training/evaluation step of the estimator
    scheduled,        \* ScheduledModifier: start_epoch, end_epoch (in 1/EpochDen)
    steps_per_epoch,  \* the steps_per_epoch argument
    ses,              \* results of start_end_steps, by after_optim
    min_epoch,        \* the min_epoch argument of epoch_to_steps (in 1/EpochDen)
    ets,              \* the calls of epoch_to_steps made so far
    fs,               \* the file system under the dataset root
    ds,               \* the ImageFolderDataset object
    built,            \* what the last call of creator built
    processed         \* what the last call of processor returned

lifeVars == <<initialized, calls, subclass_ops, estimator, runs>>
schedVars == <<scheduled, steps_per_epoch, ses, min_epoch, ets>>
dataVars == <<fs, ds, built, processed>>
vars == <<initialized, calls, subclass_ops, estimator, runs,
          scheduled, steps_per_epoch, ses, min_epoch, ets,
          fs, ds, built, processed>>

None == "None"

-----------------------------------------------------------------------------
(* Bounds of the model.                                                    *)

\* calls made directly on one modifier
MaxCalls == 3
\* steps of one estimator run
MaxRunSteps == 2
\* epochs are multiples of 1/2^EpochBits, so every product with an integer
\* steps_per_epoch is exact in binary floating point
EpochBits == 2
\* the largest epoch, in whole epochs
MaxEpoch == 2
\* the largest steps_per_epoch
MaxStepsPerEpoch == 3
\* entries (class names) under a split directory
MaxClasses == 2
\* file names inside one class directory
MaxFilesPerClass == 2
\* transforms in one transform list
MaxTransforms == 2

-----------------------------------------------------------------------------
(* Modifier: create_ops, initialize_session, complete_graph.               *)

\* The record kept of one call: the method, whether it raised RuntimeError,
\* and _initialized once the call has returned or raised.
Call(op, raised, after) == [op |-> op, raised |-> raised, after |-> after]

\* A create_ops that forgets to mark the modifier initialized.
create_ops_unmarked(init, ops) ==
    [initialized |-> init, raised |-> FALSE, ops |-> ops, extras |-> <<>>]

\* Modifier.create_ops: sets _initialized and returns (ops, extras). The base
\* class returns ([], {}); `ops` is what the class of the modifier returns.
create_ops(init, ops) ==
    [initialized |-> TRUE, raised |-> FALSE, ops |-> ops, extras |-> <<>>]

\* Modifier.initialize_session: raises RuntimeError unless _initialized.
initialize_session(init) ==
    [initialized |-> init, raised |-> ~init]

\* Modifier.complete_graph: raises RuntimeError unless _initialized.
complete_graph(init) ==
    [initialized |-> init, raised |-> ~init]

\* Modifier.__init__: a new modifier is not initialized and no call was made.
InitModifier ==
    /\ initialized = FALSE
    /\ calls = <<>>

CreateOps ==
    /\ Len(calls) < MaxCalls
    /\ LET r == create_ops(initialized, subclass_ops)
       IN  /\ initialized' = r.initialized
           /\ calls' = Append(calls, Call("create_ops", r.raised, r.initialized))
    /\ UNCHANGED <<subclass_ops, estimator, runs, schedVars, dataVars>>

InitializeSession ==
    /\ Len(calls) < MaxCalls
    /\ LET r == initialize_session(initialized)
       IN  /\ initialized' = r.initialized
           /\ calls' = Append(calls,
                  Call("initialize_session", r.raised, r.initialized))
    /\ UNCHANGED <<subclass_ops, estimator, runs, schedVars, dataVars>>

CompleteGraph ==
    /\ Len(calls) < MaxCalls
    /\ LET r == complete_graph(initialized)
       IN  /\ initialized' = r.initialized
           /\ calls' = Append(calls,
                  Call("complete_graph", r.raised, r.initialized))
    /\ UNCHANGED <<subclass_ops, estimator, runs, schedVars, dataVars>>

-----------------------------------------------------------------------------
(* Modifier.modify_estimator and ModifierSessionRunHook.                   *)

\* The ops a modifier class hands back from create_ops: the base class
\* returns the empty list, a subclass its own ops.
OpLists == {<<>>, <<"mask_update">>, <<"mask_update", "lr_update">>}

\* What a call hands back is kept as a sequence: Nothing for Python's None,
\* <<v>> for the value v.
Nothing == <<>>

\* tf.estimator.SessionRunArgs(fetches=...)
SessionRunArgs(fetches) == [fetches |-> fetches]

\* The methods ModifierSessionRunHook defines; every other method of
\* tf.train.SessionRunHook is inherited.
ModifierSessionRunHook_methods == {"__init__", "after_run"}

\* ModifierSessionRunHook.__init__
ModifierSessionRunHook(ops, extras) ==
    [kind |-> "ModifierSessionRunHook", mod_ops |-> ops, mod_extras |-> extras]

\* A hook the original model_fn put in spec.training_hooks.
OtherHook == [kind |-> "other", mod_ops |-> <<>>, mod_extras |-> <<>>]

\* ModifierSessionRunHook.after_run: returns SessionRunArgs(fetches=mod_ops).
ModifierSessionRunHook_after_run(hook) == SessionRunArgs(hook.mod_ops)

\* What the training loop gets from hook.before_run(run_context): the class
\* defines no before_run, so the inherited tf.train.SessionRunHook.before_run
\* runs, which returns None.
hook_before_run(hook) ==
    IF hook.kind = "ModifierSessionRunHook"
       /\ "before_run" \in ModifierSessionRunHook_methods
    THEN <<SessionRunArgs(hook.mod_ops)>>
    ELSE Nothing

\* What hook.after_run(run_context, run_values) returns; the training loop
\* discards it.
hook_after_run(hook) ==
    IF hook.kind = "ModifierSessionRunHook"
       /\ "after_run" \in ModifierSessionRunHook_methods
    THEN <<ModifierSessionRunHook_after_run(hook)>>
    ELSE Nothing

RECURSIVE Flatten(_)
Flatten(seqs) ==
    IF seqs = <<>> THEN <<>> ELSE Head(seqs) \o Flatten(Tail(seqs))

\* The fetches of one session.run call of the training loop: the train op and
\* the fetches of every SessionRunArgs a hook returned from before_run.
RunFetches(hooks) ==
    <<"train_op">> \o
    Flatten([h \in 1..Len(hooks) |->
        LET a == hook_before_run(hooks[h])
        IN  IF a = Nothing THEN <<>> ELSE a[1].fetches])

InitEstimator ==
    /\ estimator = [modified |-> FALSE, phase |-> "idle", mode |-> None,
                    hooks |-> <<>>, mod_ops |-> <<>>]
    /\ runs = <<>>

\* Modifier.modify_estimator: replaces estimator._model_fn by _model_func.
ModifyEstimator ==
    /\ estimator.phase = "idle"
    /\ ~estimator.modified
    /\ estimator' = [estimator EXCEPT !.modified = TRUE]
    /\ UNCHANGED <<initialized, calls, subclass_ops, runs, schedVars, dataVars>>

\* estimator.train / estimator.evaluate calls the (modified) model_fn once to
\* build the graph: _model_func calls create_ops, builds the hook and puts it
\* first in training_hooks when the mode is TRAIN.
ModelFunc(mode, spec_hooks) ==
    /\ estimator.phase = "idle"
    /\ estimator.modified
    /\ Len(calls) < MaxCalls
    /\ LET r == create_ops(initialized, subclass_ops)
           hook == ModifierSessionRunHook(r.ops, r.extras)
       IN  /\ initialized' = r.initialized
           /\ calls' = Append(calls, Call("create_ops", r.raised, r.initialized))
           /\ estimator' = [estimator EXCEPT
                  !.phase = "running",
                  !.mode = mode,
                  !.mod_ops = r.ops,
                  !.hooks = IF mode = "TRAIN" THEN <<hook>> \o spec_hooks
                            ELSE spec_hooks]
    /\ runs' = <<>>
    /\ UNCHANGED <<subclass_ops, schedVars, dataVars>>

\* One step of the run: the loop asks every hook for its before_run
\* arguments, runs the session on the fetches, calls every hook's after_run
\* and drops what it returns.
RunStep ==
    /\ estimator.phase = "running"
    /\ Len(runs) < MaxRunSteps
    /\ LET hooks == estimator.hooks
       IN  runs' = Append(runs,
               [before |-> [h \in 1..Len(hooks) |-> hook_before_run(hooks[h])],
                fetches |-> RunFetches(hooks),
                after |-> [h \in 1..Len(hooks) |-> hook_after_run(hooks[h])]])
    /\ UNCHANGED <<initialized, calls, subclass_ops, estimator, schedVars, dataVars>>

\* The run ends.
RunEnd ==
    /\ estimator.phase = "running"
    /\ estimator' = [estimator EXCEPT !.phase = "done"]
    /\ UNCHANGED <<initialized, calls, subclass_ops, runs, schedVars, dataVars>>

-----------------------------------------------------------------------------
(* Schedule conversion: start_end_steps and epoch_to_steps.                *)

\* An epoch e is kept as the integer e * EpochDen.
EpochDen == 2 ^ EpochBits

\* The epochs of the model: -1 (the "unset" value) up to MaxEpoch.
Epochs == (-EpochDen)..(MaxEpoch * EpochDen)

StepsPerEpochs == (-1)..MaxStepsPerEpoch

\* int(x): the fraction of n / d cut off, towards zero.
Trunc(n, d) == IF n >= 0 THEN n \div d ELSE -((-n) \div d)

\* Python 3's round(x) of the number n / d (d > 0): the nearest integer, a
\* tie going to the even one.
Round(n, d) ==
    LET q == n \div d
        r == n % d
    IN  IF 2 * r < d THEN q
        ELSE IF 2 * r > d THEN q + 1
        ELSE IF q % 2 = 0 THEN q ELSE q + 1

\* A start_end_steps that guards the start step the way it guards the end step.
start_end_steps_guarded(m, spe, after_optim) ==
    LET start_step == IF m.start_epoch >= 0
                      THEN Round(m.start_epoch * spe, EpochDen) ELSE 0
        end_step == IF m.end_epoch >= 0
                    THEN Round(m.end_epoch * spe, EpochDen) - 1 ELSE -1
    IN  IF after_optim
        THEN <<IF start_step > 0 THEN start_step + 1 ELSE start_step,
               IF end_step > -1 THEN end_step + 1 ELSE end_step>>
        ELSE <<start_step, end_step>>

\* A start_end_steps that converts an unset (negative) start epoch like any
\* other instead of taking step 0.
start_end_steps_unclamped(m, spe, after_optim) ==
    LET start_step == Round(m.start_epoch * spe, EpochDen)
        end_step == IF m.end_epoch >= 0
                    THEN Round(m.end_epoch * spe, EpochDen) - 1 ELSE -1
    IN  IF after_optim
        THEN <<start_step + 1,
               IF end_step > -1 THEN end_step + 1 ELSE end_step>>
        ELSE <<start_step, end_step>>

\* ScheduledModifier.start_end_steps: (start_step, end_step).
start_end_steps(m, spe, after_optim) ==
    LET start_step == IF m.start_epoch >= 0
                      THEN Round(m.start_epoch * spe, EpochDen) ELSE 0
        end_step == IF m.end_epoch >= 0
                    THEN Round(m.end_epoch * spe, EpochDen) - 1 ELSE -1
    IN  IF after_optim
        THEN <<start_step + 1,
               IF end_step > -1 THEN end_step + 1 ELSE end_step>>
        ELSE <<start_step, end_step>>

\* An epoch_to_steps that takes the size of the epoch.
epoch_to_steps_abs(epoch, spe, min) ==
    LET e == IF epoch < min THEN min ELSE epoch
    IN  Round(spe * (IF e < 0 THEN -e ELSE e), EpochDen)

\* An epoch_to_steps that cuts the fraction off with int().
epoch_to_steps_trunc(epoch, spe, min) ==
    LET e == IF epoch < min THEN min ELSE epoch
    IN  Trunc(spe * e, EpochDen)

\* epoch_to_steps(epoch, steps_per_epoch, min_epoch)
epoch_to_steps(epoch, spe, min) ==
    LET e == IF epoch < min THEN min ELSE epoch
    IN  Round(spe * e, EpochDen)

\* modifier.start_end_steps(steps_per_epoch, after_optim)
StartEndSteps(after_optim) ==
    /\ ses[after_optim] = Nothing
    /\ ses' = [ses EXCEPT
           ![after_optim] = start_end_steps(scheduled, steps_per_epoch, after_optim)]
    /\ UNCHANGED <<scheduled, steps_per_epoch, min_epoch, ets, lifeVars, dataVars>>

\* The two calls of epoch_to_steps a behaviour compares.
EtsSlots == {"first", "second"}

\* epoch_to_steps(epoch, steps_per_epoch, min_epoch)
EpochToSteps(slot, epoch) ==
    /\ slot \notin DOMAIN ets
    /\ ets' = [s \in (DOMAIN ets) \cup {slot} |->
                  IF s = slot
                  THEN [epoch |-> epoch,
                        steps |-> epoch_to_steps(epoch, steps_per_epoch, min_epoch)]
                  ELSE ets[s]]
    /\ UNCHANGED <<scheduled, steps_per_epoch, min_epoch, ses, lifeVars, dataVars>>

-----------------------------------------------------------------------------
(* ImageFolderDataset: the file tree, __init__ and creator.                *)

\* The file system under clean_path(root). `splits` are the split directories
\* that exist ("train", "val"); each one that exists holds the same entries:
\* `dirs` maps every class directory to the names of the files in it, `plain`
\* are the entries that are plain files. A name is the rank of the file name
\* among the names in use: names compare as their ranks do. `listing` is the
\* order in which the file system lists each directory: `listing.entries`
\* the entries of the split directory, `listing.files[c]` the files of class
\* directory c. The order is the file system's own: the names do not fix it,
\* and another machine holding the same files may list them otherwise.
ClassNames == 1..MaxClasses

FileNames == 1..MaxFilesPerClass

Trees ==
    UNION {[dirs : [D -> SUBSET FileNames], plain : SUBSET (ClassNames \ D)] :
               D \in SUBSET ClassNames}

\* The image_size parameter's default.
DefaultImageSize == 224

\* The default pre_resize_transforms and post_resize_transforms.
DefaultPreResize ==
    <<[train |-> <<<<"random_scaling_crop", "random_flip_left_right",
                     "random_flip_up_down">>>>,
       val |-> Nothing]>>

DefaultPostResize ==
    <<[train |-> <<<<"imagenet_normalizer">>>>,
       val |-> <<<<"center_square_crop", "imagenet_normalizer">>>>]>>

RECURSIVE Insert(_, _)
Insert(x, sorted) ==
    IF sorted = <<>> THEN <<x>>
    ELSE IF x <= Head(sorted) THEN <<x>> \o sorted
    ELSE <<Head(sorted)>> \o Insert(x, Tail(sorted))

\* list.sort()
RECURSIVE Sort(_)
Sort(seq) == IF seq = <<>> THEN <<>> ELSE Insert(Head(seq), Sort(Tail(seq)))

\* Every order in which the members of S can be listed.
RECURSIVE Orders(_)
Orders(S) ==
    IF S = {} THEN {<<>>}
    ELSE UNION {{<<x>> \o o : o \in Orders(S \ {x})} : x \in S}

\* Every way of listing the files of each of the directories `dirs`.
RECURSIVE DirOrders(_)
DirOrders(dirs) ==
    IF DOMAIN dirs = {} THEN {<<>>}
    ELSE LET c == CHOOSE x \in DOMAIN dirs : TRUE
             rest == [x \in DOMAIN dirs \ {c} |-> dirs[x]]
         IN  {[x \in DOMAIN dirs |-> IF x = c THEN o ELSE f[x]] :
                  f \in DirOrders(rest), o \in Orders(dirs[c])}

\* Every listing order a file system may have for the tree t.
Listings(t) ==
    {[entries |-> e, files |-> f] :
        e \in Orders(DOMAIN t.dirs \cup t.plain), f \in DirOrders(t.dirs)}

\* The listing of the same files in the order of their names.
SortedListing ==
    [entries |-> Sort(fs.listing.entries),
     files |-> [c \in DOMAIN fs.dirs |-> Sort(fs.listing.files[c])]]

\* glob.glob(os.path.join(root, "*")): every entry, in listing order.
GlobEntries(l) == l.entries

RECURSIVE GlobFilesFrom(_, _)
GlobFilesFrom(l, entries) ==
    IF entries = <<>> THEN <<>>
    ELSE LET c == Head(entries)
             here == IF c \in DOMAIN fs.dirs
                     THEN [k \in 1..Len(l.files[c]) |-> <<c, l.files[c][k]>>]
                     ELSE <<>>
         IN  here \o GlobFilesFrom(l, Tail(entries))

\* glob.glob(os.path.join(root, "*", "*")): the entries of every class
\* directory, directory by directory, in listing order. A file is <<class
\* directory, file name>>.
GlobFiles(l) == GlobFilesFrom(l, l.entries)

\* glob.glob(os.path.join(root, "*", "")): the entries that are directories.
GlobDirs(l) == SelectSeq(l.entries, LAMBDA c : c \in DOMAIN fs.dirs)

\* numpy.identity(n)[index].tolist(), index counted from 0
IdentityRow(n, index) == [k \in 1..n |-> IF k = index + 1 THEN 1 ELSE 0]

\* The numbers random.Random(42) draws in shuffle: ShuffleDraws[n + 1] are the
\* values of randbelow(i + 1) for i = n - 1 down to 1 when the list has n
\* members.
ShuffleDraws ==
    << <<>>,
       <<>>,
       <<0>>,
       <<2, 0>>,
       <<0, 0, 1>>,
       <<0, 0, 2, 1>>,
       <<5, 0, 0, 2, 1>>,
       <<5, 0, 0, 2, 0, 0>>,
       <<1, 0, 5, 2, 1, 0, 0>>,
       <<1, 0, 5, 2, 1, 1, 0, 0>>,
       <<1, 0, 4, 1, 1, 1, 0, 2, 0>> >>

Swap(x, a, b) == [x EXCEPT ![a] = x[b], ![b] = x[a]]

\* for i in reversed(range(1, len(x))): j = randbelow(i + 1); swap x[i], x[j]
RECURSIVE ShuffleFrom(_, _, _)
ShuffleFrom(x, i, draws) ==
    IF i < 1 THEN x
    ELSE ShuffleFrom(Swap(x, i + 1, Head(draws) + 1), i - 1, Tail(draws))

\* random.Random(42).shuffle(x)
Shuffle42(x) == ShuffleFrom(x, Len(x) - 1, ShuffleDraws[Len(x) + 1])

\* The position of lab in labels_strs, counted from 0.
IndexOf(labels_strs, lab) ==
    (CHOOSE i \in 1..Len(labels_strs) : labels_strs[i] = lab) - 1

\* An __init__ that takes "val" for a training dataset and "train" otherwise.
init_swapped(train, image_size, pre, post, l) ==
    LET split == IF train THEN "val" ELSE "train"
    IN  IF split \notin fs.splits
        THEN [status |-> "raised", error |-> "ValueError", asked |-> train,
              globbed |-> <<>>]
        ELSE [status |-> "ok", asked |-> train,
              root |-> <<"root", split>>, train |-> train,
              image_size |-> image_size,
              pre_resize_transforms |-> pre, post_resize_transforms |-> post,
              num_images |-> Len(GlobFiles(l)),
              num_classes |-> Len(GlobDirs(l)),
              globbed |-> <<"*/*", "*/">>]

\* ImageFolderDataset.__init__: raises ValueError when the split directory
\* does not exist, before it globs; else sets the fields. `globbed` are the
\* patterns the call has globbed and `asked` the train argument.
init(train, image_size, pre, post, l) ==
    LET split == IF train THEN "train" ELSE "val"
    IN  IF split \notin fs.splits
        THEN [status |-> "raised", error |-> "ValueError", asked |-> train,
              globbed |-> <<>>]
        ELSE [status |-> "ok", asked |-> train,
              root |-> <<"root", split>>, train |-> train,
              image_size |-> image_size,
              pre_resize_transforms |-> pre, post_resize_transforms |-> post,
              num_images |-> Len(GlobFiles(l)),
              num_classes |-> Len(GlobDirs(l)),
              globbed |-> <<"*/*", "*/">>]

\* ImageFolderDataset.__len__
len(d) == d.num_images

\* A creator that shuffles the files alone and leaves the labels in glob
\* order.
creator_files_shuffled(l) ==
    LET labels_strs == Sort(GlobEntries(l))
        labels_dict == [lab \in {labels_strs[i] : i \in 1..Len(labels_strs)} |->
                           IdentityRow(Len(labels_strs), IndexOf(labels_strs, lab))]
        found == GlobFiles(l)
        files == Shuffle42(found)
        records == [k \in 1..Len(found) |->
                       [file |-> files[k], label |-> labels_dict[found[k][1]]]]
    IN  IF records = <<>>
        THEN [status |-> "raised", error |-> "ValueError"]
        ELSE [status |-> "ok", labels_strs |-> labels_strs,
              labels_dict |-> labels_dict, records |-> records]

\* ImageFolderDataset.creator under the listing l: the sorted labels, the
\* one-hot vector of each label, and the shuffled (file, label) records the
\* dataset yields. zip(*files_labels) raises ValueError when no file matched.
creator(l) ==
    LET labels_strs == Sort(GlobEntries(l))
        labels_dict == [lab \in {labels_strs[i] : i \in 1..Len(labels_strs)} |->
                           IdentityRow(Len(labels_strs), IndexOf(labels_strs, lab))]
        found == GlobFiles(l)
        files_labels == [k \in 1..Len(found) |->
                            [file |-> found[k], label |-> labels_dict[found[k][1]]]]
        shuffled == Shuffle42(files_labels)
    IN  IF shuffled = <<>>
        THEN [status |-> "raised", error |-> "ValueError"]
        ELSE [status |-> "ok", labels_strs |-> labels_strs,
              labels_dict |-> labels_dict, records |-> shuffled]

\* ImageFolderDataset(root, train, image_size, pre_resize_transforms,
\* post_resize_transforms)
Construct(train, image_size, pre, post) ==
    /\ ds.status = "none"
    /\ ds' = init(train, image_size, pre, post, fs.listing)
    /\ UNCHANGED <<fs, built, processed, lifeVars, schedVars>>

\* dataset.creator()
Creator ==
    /\ ds.status = "ok"
    /\ built.status = "none"
    /\ LET r == creator(fs.listing)
       IN  built' = [status |-> r.status, call |-> r]
    /\ UNCHANGED <<fs, ds, processed, lifeVars, schedVars>>

-----------------------------------------------------------------------------
(* ImageFolderDataset.processor.                                           *)

\* The transforms of the model; a transform is known by its name.
Transforms == {"flip", "normalize"}

\* A transform list as a parameter holds: Nothing for None, <<list>> for a
\* list, the empty one included.
TransformLists ==
    {Nothing} \cup
    {<<t>> : t \in UNION {[1..n -> Transforms] : n \in 0..MaxTransforms}}

\* pre_resize_transforms / post_resize_transforms: None or a SplitsTransforms.
SplitsTransforms ==
    {Nothing} \cup
    {<<[train |-> a, val |-> b]>> : a \in TransformLists, b \in TransformLists}

\* image_size: 0 stands for the values Python takes as false (0, None).
ImageSizes == {0, DefaultImageSize}

\* An image is the sequence of the operations applied to the decoded file.
Applied(op, size) == [op |-> op, size |-> size]

\* for trans in transforms: img = trans(img)
RECURSIVE ApplyAll(_, _)
ApplyAll(transforms, img) ==
    IF transforms = <<>> THEN img
    ELSE ApplyAll(Tail(transforms), Append(img, Applied(Head(transforms), 0)))

\* One transform stage of processor: `splits` is the dataset's
\* pre_resize_transforms or post_resize_transforms.
Stage(splits, train, img) ==
    IF splits = Nothing THEN img
    ELSE LET transforms == IF train THEN splits[1].train ELSE splits[1].val
         IN  IF transforms = Nothing \/ transforms = <<<<>>>> THEN img
             ELSE ApplyAll(transforms[1], img)

\* A processor that takes the val transforms for a training dataset and the
\* train transforms otherwise.
processor_swapped(d, file_path, label) ==
    LET img1 == Stage(d.pre_resize_transforms, ~d.train, <<>>)
        img2 == IF d.image_size # 0
                THEN Append(img1, Applied("resize", d.image_size))
                ELSE img1
        img3 == Stage(d.post_resize_transforms, ~d.train, img2)
    IN  [img |-> img3, label |-> label]

\* ImageFolderDataset.processor(file_path, label): (img, label)
processor(d, file_path, label) ==
    LET img1 == Stage(d.pre_resize_transforms, d.train, <<>>)
        img2 == IF d.image_size # 0
                THEN Append(img1, Applied("resize", d.image_size))
                ELSE img1
        img3 == Stage(d.post_resize_transforms, d.train, img2)
    IN  [img |-> img3, label |-> label]

\* dataset.processor(file_path, label) on one record
Processor(file_path, label) ==
    /\ ds.status = "ok"
    /\ processed.status = "none"
    /\ LET r == processor(ds, file_path, label)
       IN  processed' = [status |-> "ok", file_path |-> file_path,
                         label_in |-> label, img |-> r.img, label |-> r.label]
    /\ UNCHANGED <<fs, ds, built, lifeVars, schedVars>>

-----------------------------------------------------------------------------
(* Initial values of the components a specification leaves alone.          *)

IdleLife ==
    /\ InitModifier
    /\ InitEstimator
    /\ subclass_ops = <<>>

IdleSched ==
    /\ scheduled = [start_epoch |-> -1, end_epoch |-> -1]
    /\ steps_per_epoch = 1
    /\ ses = [a \in BOOLEAN |-> Nothing]
    /\ min_epoch = 0
    /\ ets = <<>>

IdleData ==
    /\ fs = [splits |-> {}, dirs |-> <<>>, plain |-> {},
             listing |-> [entries |-> <<>>, files |-> <<>>]]
    /\ ds = [status |-> "none"]
    /\ built = [status |-> "none"]
    /\ processed = [status |-> "none"]

-----------------------------------------------------------------------------
(* SpecLife                                                                *)

InitLife ==
    /\ InitModifier
    /\ InitEstimator
    /\ subclass_ops \in OpLists
    /\ IdleSched
    /\ IdleData

NextLife ==
    \/ CreateOps
    \/ InitializeSession
    \/ CompleteGraph
    \/ ModifyEstimator
    \/ \E mode \in {"TRAIN", "EVAL"}, spec_hooks \in {<<>>, <<OtherHook>>} :
           ModelFunc(mode, spec_hooks)
    \/ RunStep
    \/ RunEnd

SpecLife == InitLife /\ [][NextLife]_vars

-----------------------------------------------------------------------------
(* SpecSteps                                                               *)

InitSteps ==
    /\ scheduled \in [start_epoch : Epochs, end_epoch : Epochs]
    /\ steps_per_epoch \in StepsPerEpochs
    /\ ses = [a \in BOOLEAN |-> Nothing]
    /\ min_epoch = 0
    /\ ets = <<>>
    /\ IdleLife
    /\ IdleData

\* The epochs of the modifier that epoch_to_steps is asked to convert, with
\* the default min_epoch of 0.
ScheduledEpochs == {"start_epoch", "end_epoch"}

NextSteps ==
    \/ \E after_optim \in BOOLEAN : StartEndSteps(after_optim)
    \/ \E which \in ScheduledEpochs : EpochToSteps(which, scheduled[which])

SpecSteps == InitSteps /\ [][NextSteps]_vars

-----------------------------------------------------------------------------
(* SpecEpoch                                                               *)

InitEpoch ==
    /\ scheduled = [start_epoch |-> -1, end_epoch |-> -1]
    /\ steps_per_epoch \in StepsPerEpochs
    /\ ses = [a \in BOOLEAN |-> Nothing]
    /\ min_epoch \in Epochs
    /\ ets = <<>>
    /\ IdleLife
    /\ IdleData

NextEpoch == \E slot \in EtsSlots, epoch \in Epochs : EpochToSteps(slot, epoch)

SpecEpoch == InitEpoch /\ [][NextEpoch]_vars

-----------------------------------------------------------------------------
(* SpecData                                                                *)

InitData ==
    /\ \E t \in Trees, sp \in SUBSET {"train", "val"} :
           \E l \in Listings(t) :
               fs = [splits |-> sp, dirs |-> t.dirs, plain |-> t.plain,
                     listing |-> l]
    /\ ds = [status |-> "none"]
    /\ built = [status |-> "none"]
    /\ processed = [status |-> "none"]
    /\ IdleLife
    /\ IdleSched

NextData ==
    \/ \E train \in BOOLEAN :
           Construct(train, DefaultImageSize, DefaultPreResize, DefaultPostResize)
    \/ Creator

SpecData == InitData /\ [][NextData]_vars

-----------------------------------------------------------------------------
(* SpecProc                                                                *)

InitProc ==
    /\ fs = [splits |-> {"train", "val"}, dirs |-> <<{1}>>, plain |-> {},
             listing |-> [entries |-> <<1>>, files |-> <<<<1>>>>]]
    /\ ds = [status |-> "none"]
    /\ built = [status |-> "none"]
    /\ processed = [status |-> "none"]
    /\ IdleLife
    /\ IdleSched

NextProc ==
    \/ /\ ds.status = "none"
       /\ \E train \in BOOLEAN, image_size \in ImageSizes,
             pre \in SplitsTransforms, post \in SplitsTransforms :
              Construct(train, image_size, pre, post)
    \/ \E label \in {<<1, 0>>, <<0, 1>>} : Processor(<<1, 1>>, label)

SpecProc == InitProc /\ [][NextProc]_vars

-----------------------------------------------------------------------------
(* Properties of the Modifier life cycle (SpecLife).                       *)

CreatedBefore(i) == \E j \in 1..(i - 1) : calls[j].op = "create_ops"

\* C1: a call of initialize_session or complete_graph raises RuntimeError
\* exactly when no earlier call of create_ops was made on the modifier; a call
\* that raises leaves the modifier uninitialized; and once create_ops has been
\* called the modifier stays initialized through every later call.
C1_LifecycleOrdering ==
    /\ \A i \in 1..Len(calls) :
        /\ calls[i].op \in {"initialize_session", "complete_graph"}
               => (calls[i].raised <=> ~CreatedBefore(i))
        /\ calls[i].op = "create_ops" => ~calls[i].raised
        /\ calls[i].raised => ~calls[i].after
        /\ (CreatedBefore(i) \/ calls[i].op = "create_ops") => calls[i].after
    /\ (\E i \in 1..Len(calls) : calls[i].op = "create_ops") => initialized

\* A call raised before create_ops, and a later call passed after it.
C1_Witness ==
    /\ Len(calls) = 3
    /\ calls[1].op = "initialize_session" /\ calls[1].raised
    /\ calls[2].op = "create_ops"
    /\ calls[3].op = "complete_graph" /\ ~calls[3].raised

\* C2: while a modified estimator trains, the hook's mod_ops are part of
\* every step: before each run call the hook hands the loop a SessionRunArgs
\* whose fetches are mod_ops, and the step's session.run fetches them.
C2_ModOpsRunEveryStep ==
    (estimator.modified /\ estimator.mode = "TRAIN") =>
        \A i \in 1..Len(runs) :
            /\ runs[i].before[1] = <<SessionRunArgs(estimator.mod_ops)>>
            /\ \A k \in 1..Len(estimator.mod_ops) :
                   \E n \in 1..Len(runs[i].fetches) :
                       runs[i].fetches[n] = estimator.mod_ops[k]

-----------------------------------------------------------------------------
(* Properties of start_end_steps (SpecSteps).                              *)

BothComputed == ses[TRUE] # Nothing /\ ses[FALSE] # Nothing

\* C3: for every start_epoch, end_epoch and steps_per_epoch, the start step
\* computed with after_optim=True is one more than the start step computed
\* with after_optim=False.
C3_StartStepOffset ==
    BothComputed => ses[TRUE][1] = ses[FALSE][1] + 1

\* Both results are there for an unset start epoch, which converts to step 0.
C3_Witness ==
    /\ BothComputed
    /\ scheduled.start_epoch < 0
    /\ steps_per_epoch > 0
    /\ ses[FALSE][1] = 0

\* C10: when the end epoch is set (end_epoch >= 0) and steps_per_epoch >= 1,
\* the end step computed with after_optim=True is one more than the end step
\* computed with after_optim=False; when end_epoch < 0 both end steps are -1.
C10_EndStepOffset ==
    BothComputed =>
        /\ (scheduled.end_epoch >= 0 /\ steps_per_epoch >= 1)
               => ses[TRUE][2] = ses[FALSE][2] + 1
        /\ scheduled.end_epoch < 0
               => (ses[TRUE][2] = -1 /\ ses[FALSE][2] = -1)

-----------------------------------------------------------------------------
(* Properties of epoch_to_steps (SpecEpoch).                               *)

Max(a, b) == IF a >= b THEN a ELSE b

Abs(a) == IF a < 0 THEN -a ELSE a

\* C4: for steps_per_epoch >= 0 and a fixed min_epoch, epoch_to_steps does not
\* decrease as the epoch grows from min_epoch on.
C4_Monotonic ==
    \A a \in DOMAIN ets, b \in DOMAIN ets :
        (/\ steps_per_epoch >= 0
         /\ ets[a].epoch >= min_epoch
         /\ ets[a].epoch <= ets[b].epoch)
            => ets[a].steps <= ets[b].steps

\* Two epochs at or above min_epoch, negative ones among them, were converted.
C4_Witness ==
    \E a \in DOMAIN ets, b \in DOMAIN ets :
        /\ steps_per_epoch > 0
        /\ min_epoch < 0
        /\ ets[a].epoch >= min_epoch
        /\ ets[a].epoch < 0
        /\ ets[a].epoch < ets[b].epoch
        /\ ets[a].steps < ets[b].steps

\* C5: the result of epoch_to_steps is an integer within one half of
\* steps_per_epoch * max(epoch, min_epoch), and an epoch below min_epoch
\* converts to the same step as min_epoch itself.
C5_NearestStep ==
    /\ \A a \in DOMAIN ets :
           2 * Abs(ets[a].steps * EpochDen
                   - steps_per_epoch * Max(ets[a].epoch, min_epoch)) <= EpochDen
    /\ \A a \in DOMAIN ets, b \in DOMAIN ets :
           (ets[a].epoch < min_epoch /\ ets[b].epoch = min_epoch)
               => ets[a].steps = ets[b].steps

\* An epoch below min_epoch and min_epoch itself were converted, and the
\* product is no whole number of steps.
C5_Witness ==
    \E a \in DOMAIN ets, b \in DOMAIN ets :
        /\ ets[a].epoch < min_epoch
        /\ ets[b].epoch = min_epoch
        /\ (steps_per_epoch * min_epoch) % EpochDen # 0
        /\ ets[a].steps = ets[b].steps

-----------------------------------------------------------------------------
(* Properties of ImageFolderDataset (SpecData, SpecProc).                  *)

\* C6: the sequence of (file, label) records creator produces depends only on
\* the set of files, not on the order in which glob lists them: it is the
\* sequence any other listing of the same files gives, the listing in the
\* order of the names among them.
C6_RecordsDependOnFilesOnly ==
    built.status = "ok" => built.call.records = creator(SortedListing).records

\* C7: the class labels are exactly the subdirectories of the dataset root in
\* sorted order, and the label vector of the i-th class is the i-th row of the
\* identity matrix of size n, n the number of classes: vectors of distinct
\* classes are orthogonal.
C7_LabelsAreSortedSubdirs ==
    built.status = "ok" =>
        LET labels_strs == built.call.labels_strs
            labels_dict == built.call.labels_dict
            n == Cardinality(DOMAIN fs.dirs)
        IN  /\ Len(labels_strs) = n
            /\ {labels_strs[i] : i \in 1..Len(labels_strs)} = DOMAIN fs.dirs
            /\ \A i \in 1..(Len(labels_strs) - 1) :
                   labels_strs[i] < labels_strs[i + 1]
            /\ \A i \in 1..Len(labels_strs) :
                   labels_dict[labels_strs[i]]
                       = [k \in 1..n |-> IF k = i THEN 1 ELSE 0]
            /\ \A i \in 1..Len(labels_strs), j \in 1..Len(labels_strs) :
                   i # j =>
                       \A k \in 1..n :
                           ~(/\ labels_dict[labels_strs[i]][k] = 1
                             /\ labels_dict[labels_strs[j]][k] = 1)

SplitOf(train) == IF train THEN "train" ELSE "val"

\* C8: constructing the dataset raises ValueError, before any file is
\* enumerated, exactly when the split directory (root/train if train, else
\* root/val) does not exist; when it exists the construction succeeds and the
\* root property is that split directory.
C8_MissingSplitRaises ==
    ds.status # "none" =>
        /\ ds.status = "raised" <=> SplitOf(ds.asked) \notin fs.splits
        /\ ds.status = "raised" => (ds.error = "ValueError" /\ ds.globbed = <<>>)
        /\ ds.status = "ok" => ds.root = <<"root", SplitOf(ds.asked)>>

\* A training dataset was asked for where only root/val exists.
C8_Witness ==
    /\ ds.status = "raised"
    /\ ds.asked
    /\ fs.splits = {"val"}

\* The operations of the transforms of one stage, in the order given.
StageOps(splits, train) ==
    IF splits = Nothing THEN <<>>
    ELSE LET transforms == IF train THEN splits[1].train ELSE splits[1].val
         IN  IF transforms = Nothing THEN <<>>
             ELSE [k \in 1..Len(transforms[1]) |-> Applied(transforms[1][k], 0)]

\* C9 as claimed: processor applies the pre-resize transforms in order, then
\* the resize to (image_size, image_size), then the post-resize transforms in
\* order, with the train lists for a training dataset and the val lists
\* otherwise; a stage whose list is None or empty is skipped; the label is
\* returned unchanged.
C9_StagesAlwaysResize ==
    processed.status = "ok" =>
        /\ processed.img
               = StageOps(ds.pre_resize_transforms, ds.train)
                 \o <<Applied("resize", ds.image_size)>>
                 \o StageOps(ds.post_resize_transforms, ds.train)
        /\ processed.label = processed.label_in

\* C9 as amended: the same, with the resize applied only when image_size is
\* set (not None and not 0) and skipped otherwise.
C9_StagesInOrder ==
    processed.status = "ok" =>
        /\ processed.img
               = StageOps(ds.pre_resize_transforms, ds.train)
                 \o (IF ds.image_size # 0
                     THEN <<Applied("resize", ds.image_size)>> ELSE <<>>)
                 \o StageOps(ds.post_resize_transforms, ds.train)
        /\ processed.label = processed.label_in

\* A validation record went through two pre-resize transforms, the resize and
\* one post-resize transform, the train lists being different ones.
C9_Witness ==
    /\ processed.status = "ok"
    /\ ~ds.train
    /\ ds.pre_resize_transforms
           = <<[train |-> Nothing, val |-> <<<<"normalize", "flip">>>>]>>
    /\ ds.post_resize_transforms
           = <<[train |-> <<<<"normalize">>>>, val |-> <<<<"flip">>>>]>>
    /\ processed.img = <<Applied("normalize", 0), Applied("flip", 0),
                         Applied("resize", DefaultImageSize), Applied("flip", 0)>>

\* The files glob matches under root/*/*: <<class directory, file name>>.
MatchedFiles ==
    {cf \in ClassNames \X FileNames :
        cf[1] \in DOMAIN fs.dirs /\ cf[2] \in fs.dirs[cf[1]]}

\* The names glob matches under root/*, in the order of the names.
EntryNames == DOMAIN fs.dirs \cup fs.plain

\* The number of entries whose name comes before the name c.
RankOf(c) == Cardinality({e \in EntryNames : e < c})

\* C11: the records creator builds are a permutation of the files matched by
\* root/*/*: every such file is in exactly one record, and every record pairs
\* its file with the one-hot label of the file's own parent directory.
C11_RecordsArePermutation ==
    built.status = "ok" =>
        LET records == built.call.records
        IN  /\ Len(records) = Cardinality(MatchedFiles)
            /\ \A file \in MatchedFiles :
                   Cardinality({k \in 1..Len(records) : records[k].file = file}) = 1
            /\ \A k \in 1..Len(records) :
                   /\ records[k].file \in MatchedFiles
                   /\ records[k].label
                          = [i \in 1..Cardinality(EntryNames) |->
                                IF i = RankOf(records[k].file[1]) + 1 THEN 1 ELSE 0]

\* Four files in two class directories were shuffled: the first record is not
\* the first file glob listed, and the two labels both occur.
C11_Witness ==
    /\ built.status = "ok"
    /\ Len(built.call.records) = 4
    /\ built.call.records[1].file # GlobFiles(fs.listing)[1]
    /\ \E j \in 1..4, k \in 1..4 :
           built.call.records[j].label # built.call.records[k].label

-----------------------------------------------------------------------------
(* start_end_steps against epoch_to_steps (SpecSteps).                     *)

\* C12: for every start_epoch, negative ones included, and every
\* steps_per_epoch >= 0, the start step of start_end_steps(steps_per_epoch,
\* after_optim=False) is epoch_to_steps(start_epoch, steps_per_epoch, 0); and
\* for end_epoch >= 0 its end step is epoch_to_steps(end_epoch,
\* steps_per_epoch, 0) - 1.
C12_ConversionsAgree ==
    (ses[FALSE] # Nothing /\ steps_per_epoch >= 0) =>
        /\ "start_epoch" \in DOMAIN ets
               => ses[FALSE][1] = ets["start_epoch"].steps
        /\ ("end_epoch" \in DOMAIN ets /\ scheduled.end_epoch >= 0)
               => ses[FALSE][2] = ets["end_epoch"].steps - 1

\* An unset start epoch and an end epoch that is no whole number of steps
\* were converted both ways.
C12_Witness ==
    /\ ses[FALSE] # Nothing
    /\ DOMAIN ets = ScheduledEpochs
    /\ steps_per_epoch > 0
    /\ scheduled.start_epoch < 0
    /\ scheduled.end_epoch > 0
    /\ (scheduled.end_epoch * steps_per_epoch) % EpochDen # 0
    /\ ets["start_epoch"].steps = 0
    /\ ets["end_epoch"].steps > 0

-----------------------------------------------------------------------------
(* The counts of the dataset against the records of creator (SpecData).    *)

\* C13: for every content of the dataset root, the length of each one-hot
\* label vector produced by creator equals num_classes, and the number of
\* records produced by creator equals num_images and len(dataset).
C13_CountsAgreeWithRecords ==
    built.status = "ok" =>
        LET records == built.call.records
        IN  /\ \A k \in 1..Len(records) : Len(records[k].label) = ds.num_classes
            /\ Len(records) = ds.num_images
            /\ Len(records) = len(ds)

====
